---- MODULE Spec2Model ----
(***************************************************************************)
(* The query result cache (backend/app/core/database.py, CacheManager),    *)
(* the warehouse query path that goes through it                           *)
(* (backend/app/services/snowflake_service.py) and the alert evaluation    *)
(* and notification pipeline (backend/app/api/endpoints/alerts.py).        *)
(*                                                                         *)
(* Time is counted in whole ticks of the store's clock (CURRENT_TIMESTAMP, *)
(* UTC).  A table is the set of its rows; the AUTOINCREMENT id of a row is  *)
(* its identity and is represented by the row itself.                      *)
(***************************************************************************)
EXTENDS Integers, Sequences, FiniteSets, TLC

\* ------------------------------------------------------------------ bounds
NumQueries == 3
NumPutQueries == 12
MaxTime == 2
MaxTTL == 2
MaxMaxCacheSize == 2
TzOffset == 2
MaxAccessCount == 1
MaxConcTime == 1
NumCallers == 2
NumConcQueries == 2
NumRequests == 2
MaxMetric == 2
MaxHistory == 3
MaxAlerts == 2

\* ------------------------------------------------------- program constants
\* cleanup_count = count - MAX_CACHE_SIZE + 10
EvictionSlack == 10

Queries == 1..NumQueries
PutQueries == 1..NumPutQueries
TTLs == 1..MaxTTL
CacheSizes == 1..MaxMaxCacheSize
\* the process's local time is behind UTC, UTC, or ahead of UTC
TzOffsets == {0 - TzOffset, 0, TzOffset}
Callers == 1..NumCallers
ConcQueries == 1..NumConcQueries
Requests == 1..NumRequests

VARIABLES
    now,          \* the store's clock: CURRENT_TIMESTAMP (UTC)
    tz,           \* offset of the process's local time from UTC: datetime.now() = now + tz
    ttl,          \* settings.CACHE_TTL_SECONDS
    maxSize,      \* settings.MAX_CACHE_SIZE
    query_cache,  \* table query_cache
    lastOp,       \* the last completed cache operation and what it returned
    cpc,          \* concurrent callers: position in get_cached_result / cache_result
    cloc,         \* concurrent callers: local variables
    users,        \* table users: the ids of its rows
    alerts,       \* table alerts
    alert_history,\* table alert_history, in id order
    alert_seq,    \* table sqlite_sequence: the largest id table alerts ever gave out
    rpc,          \* requests: position in test_alert / check_all_alerts
    rloc          \* requests: local variables

alertVars == <<users, alerts, alert_history, alert_seq, rpc, rloc>>
vars == <<now, tz, ttl, maxSize, query_cache, lastOp, cpc, cloc, alertVars>>

\* ------------------------------------------------------------ python values
\* A warehouse cell: an int or float (isinstance(value, (int, float))), a str,
\* None, or a value whose repr is no Python literal (Decimal, date, datetime).
IntVal(n) == [kind |-> "num", v |-> n]
StrVal == [kind |-> "str", v |-> 0]
NoneVal == [kind |-> "none", v |-> 0]
OtherVal == [kind |-> "other", v |-> 0]

\* str(x): the repr text of x
PyStr(x) == <<"repr", x>>

\* whether eval() of the repr of cell c gives c back, or raises NameError
IsLiteralCell(c) == c.kind \in {"num", "str", "none"}

IsLiteralData(d) ==
    \A i \in 1..Len(d) : \A j \in 1..Len(d[i]) : IsLiteralCell(d[i][j])

\* eval(s) of a stored repr text of result rows
PyEvalRaises(s) == ~IsLiteralData(s[2])
PyEval(s) == s[2]

\* ------------------------------------------------------------- cache table
\* hashlib.sha256(sql_query.encode()).hexdigest(): the digest of the text as
\* it was passed, character by character
KeyOfWords(sql_query) == <<"sha256", sql_query.words>>
get_cache_key(sql_query) == <<"sha256", sql_query>>

NoResult == [hit |-> FALSE, data |-> <<>>, metadata |-> <<>>, cached_at |-> 0]

\* the row INSERT OR REPLACE writes: created_at, last_accessed and access_count
\* take their column defaults, expires_at is datetime.now() + TTL
NewCacheRow(sql_query, result_data, result_metadata, expires_at) ==
    [query_hash |-> get_cache_key(sql_query),
     sql_query |-> sql_query,
     result_data |-> result_data,
     result_metadata |-> result_metadata,
     created_at |-> now,
     expires_at |-> expires_at,
     access_count |-> 0,
     last_accessed |-> now]

\* INSERT OR REPLACE on the UNIQUE column query_hash: the conflicting row is
\* deleted, the new row inserted
InsertOnly(table, row) == table \cup {row}
InsertOrReplace(table, row) ==
    {r \in table : r.query_hash # row.query_hash} \cup {row}

\* SELECT ... WHERE query_hash = ? AND expires_at > CURRENT_TIMESTAMP
SelectValid(table, key) ==
    {r \in table : r.query_hash = key /\ r.expires_at > now}

\* UPDATE query_cache SET access_count = access_count + 1,
\*        last_accessed = CURRENT_TIMESTAMP WHERE query_hash = ?
TouchEveryRow(table, key) ==
    {[r EXCEPT !.access_count = @ + 1, !.last_accessed = now] : r \in table}
TouchRows(table, key) ==
    {IF r.query_hash = key
        THEN [r EXCEPT !.access_count = @ + 1, !.last_accessed = now]
        ELSE r : r \in table}

\* DELETE FROM query_cache WHERE expires_at <= CURRENT_TIMESTAMP
DeleteExpired(table) == {r \in table : ~(r.expires_at <= now)}

\* the sets of rows DELETE ... WHERE id IN (SELECT id ... ORDER BY last_accessed
\* ASC LIMIT n) can remove: n rows (all, if fewer), none of them accessed later
\* than a row that stays; the order among equal last_accessed is not specified
AnyVictims(table, n) ==
    {S \in SUBSET table :
        Cardinality(S) = (IF n < Cardinality(table) THEN n ELSE Cardinality(table))}
LRUVictims(table, n) ==
    {S \in SUBSET table :
        /\ Cardinality(S) = (IF n < Cardinality(table) THEN n ELSE Cardinality(table))
        /\ \A a \in S : \A b \in table \ S : a.last_accessed <= b.last_accessed}

\* the tables cleanup_expired_cache can leave
NoSizeLimit(table) == {DeleteExpired(table)}
CleanupResults(table) ==
    LET t == DeleteExpired(table)
        count == Cardinality(t)
    IN  IF count > maxSize
        THEN {t \ S : S \in LRUVictims(t, count - maxSize + EvictionSlack)}
        ELSE {t}

\* the result get_cached_result returns for a non-empty SELECT
HitResult(results) ==
    LET r == CHOOSE x \in results : TRUE
    IN  [hit |-> TRUE, data |-> r.result_data, metadata |-> r.result_metadata,
         cached_at |-> r.created_at]

\* what get_cached_result(sql_query) returns in the current state
Lookup(sql_query) ==
    LET results == SelectValid(query_cache, get_cache_key(sql_query))
    IN  IF results # {} THEN HitResult(results) ELSE NoResult

\* ------------------------------------------------------------------ inputs
NumPayloads == 2
\* result_data and result_metadata texts handed to cache_result
Payloads == {PyStr(<< <<IntVal(n)>> >>) : n \in 1..NumPayloads}
Metas == {PyStr([row_count |-> n]) : n \in 1..NumPayloads}

NoOp == [op |-> "none", q |-> 0, r |-> <<>>, m |-> <<>>, at |-> 0, result |-> NoResult]
IdleLocals == [q |-> 0, r |-> <<>>, m |-> <<>>, expires_at |-> 0, count |-> 0]

\* timestamps that are NULL
Null == 0 - 1

NoReturn == [status |-> "none"]
IdleRequest ==
    [kind |-> "none", user |-> 0, batch |-> <<>>, idx |-> 0,
     condition_met |-> FALSE, metric_value |-> 0,
     raised |-> FALSE, data |-> <<>>, executions |-> 0,
     email |-> "no", slack |-> "no", notification_sent |-> FALSE,
     inserted |-> FALSE, fault |-> "none", evals |-> <<>>, results |-> <<>>,
     peak |-> 0, alert_id |-> 0, input |-> NoReturn, ret |-> NoReturn]

\* the settings, an empty cache, no call in flight
InitCache ==
    /\ now = 0
    /\ tz \in TzOffsets
    /\ ttl \in TTLs
    /\ maxSize \in CacheSizes
    /\ query_cache = {}
    /\ lastOp = NoOp
    /\ cpc = [c \in Callers |-> "idle"]
    /\ cloc = [c \in Callers |-> IdleLocals]

\* init_db on a new database file: every table is empty
Init ==
    /\ InitCache
    /\ users = {}
    /\ alerts = {}
    /\ alert_history = <<>>
    /\ alert_seq = 0
    /\ rpc = [r \in Requests |-> "idle"]
    /\ rloc = [r \in Requests |-> IdleRequest]

\* the clock advances
Tick ==
    /\ now < MaxTime
    /\ now' = now + 1
    /\ UNCHANGED <<tz, ttl, maxSize, query_cache, lastOp, cpc, cloc, alertVars>>

\* --------------------------------------- cache operations, run to completion
\* CacheManager.cache_result, with the cleanup_expired_cache call that ends it
CacheResult(sql_query, result_data, result_metadata) ==
    /\ \E t \in CleanupResults(
                  InsertOrReplace(query_cache,
                      NewCacheRow(sql_query, result_data, result_metadata,
                                  now + tz + ttl))) :
          query_cache' = t
    /\ lastOp' = [op |-> "put", q |-> sql_query, r |-> result_data,
                  m |-> result_metadata, at |-> now, result |-> NoResult]
    /\ UNCHANGED <<now, tz, ttl, maxSize, cpc, cloc, alertVars>>

\* CacheManager.get_cached_result
GetCachedResult(sql_query) ==
    LET key == get_cache_key(sql_query)
        results == SelectValid(query_cache, key)
    IN  /\ results # {} =>
              \A r \in query_cache : r.query_hash = key => r.access_count < MaxAccessCount
        /\ query_cache' = IF results # {} THEN TouchRows(query_cache, key)
                                          ELSE query_cache
        /\ lastOp' = [op |-> "get", q |-> sql_query, r |-> <<>>, m |-> <<>>,
                      at |-> now, result |-> Lookup(sql_query)]
        /\ UNCHANGED <<now, tz, ttl, maxSize, cpc, cloc, alertVars>>

Put == \E q \in Queries, r \in Payloads, m \in Metas : CacheResult(q, r, m)
Get == \E q \in Queries : GetCachedResult(q)

NextCache == Tick \/ Put \/ Get

\* cache_result and get_cached_result called one after the other
SpecCache == Init /\ [][NextCache]_vars

\* ------------------------------------------- a sequence of cache_result calls
CachedQueries == {r.sql_query : r \in query_cache}

\* Query texts are interchangeable (the cache reads only their hash): a text
\* not yet cached is taken to be the least one
NextPutQueries ==
    {q \in PutQueries :
        \/ q \in CachedQueries
        \/ q \notin CachedQueries /\ \A p \in PutQueries \ CachedQueries : q <= p}

PutNext ==
    \E q \in NextPutQueries :
        CacheResult(q, PyStr(<< <<IntVal(1)>> >>), PyStr([row_count |-> 1]))

NextPuts == Tick \/ PutNext

SpecPuts == Init /\ [][NextPuts]_vars

\* ------------------------- cache operations of concurrent callers, one SQL
\* statement (its own connection and commit, execute_non_query) at a time
\* get_cached_result: the SELECT; an empty result returns None
GetSelect(c, sql_query) ==
    LET results == SelectValid(query_cache, get_cache_key(sql_query))
    IN  /\ cpc[c] = "idle"
        /\ cpc' = [cpc EXCEPT ![c] = IF results # {} THEN "get_update" ELSE "idle"]
        /\ cloc' = [cloc EXCEPT ![c] =
                        IF results # {} THEN [IdleLocals EXCEPT !.q = sql_query]
                                        ELSE IdleLocals]
        /\ UNCHANGED <<now, tz, ttl, maxSize, query_cache, lastOp, alertVars>>

\* get_cached_result: the UPDATE of access_count and last_accessed
GetUpdate(c) ==
    LET key == get_cache_key(cloc[c].q)
    IN  /\ cpc[c] = "get_update"
        /\ \A r \in query_cache : r.query_hash = key => r.access_count < MaxAccessCount
        /\ query_cache' = TouchRows(query_cache, key)
        /\ cpc' = [cpc EXCEPT ![c] = "idle"]
        /\ cloc' = [cloc EXCEPT ![c] = IdleLocals]
        /\ UNCHANGED <<now, tz, ttl, maxSize, lastOp, alertVars>>

\* cache_result: the key and expires_at = datetime.now() + TTL
PutBegin(c, sql_query, result_data, result_metadata) ==
    /\ cpc[c] = "idle"
    /\ cpc' = [cpc EXCEPT ![c] = "put_insert"]
    /\ cloc' = [cloc EXCEPT ![c] =
                    [IdleLocals EXCEPT !.q = sql_query, !.r = result_data,
                                       !.m = result_metadata,
                                       !.expires_at = now + tz + ttl]]
    /\ UNCHANGED <<now, tz, ttl, maxSize, query_cache, lastOp, alertVars>>

\* cache_result: INSERT OR REPLACE
PutInsert(c) ==
    /\ cpc[c] = "put_insert"
    /\ query_cache' = InsertOrReplace(query_cache,
                          NewCacheRow(cloc[c].q, cloc[c].r, cloc[c].m,
                                      cloc[c].expires_at))
    /\ cpc' = [cpc EXCEPT ![c] = "cleanup_delete"]
    /\ UNCHANGED <<now, tz, ttl, maxSize, lastOp, cloc, alertVars>>

\* cleanup_expired_cache: DELETE of the expired rows
CleanupDelete(c) ==
    /\ cpc[c] = "cleanup_delete"
    /\ query_cache' = DeleteExpired(query_cache)
    /\ cpc' = [cpc EXCEPT ![c] = "cleanup_count"]
    /\ UNCHANGED <<now, tz, ttl, maxSize, lastOp, cloc, alertVars>>

\* cleanup_expired_cache: SELECT COUNT(*) and the comparison with MAX_CACHE_SIZE
CleanupCount(c) ==
    LET count == Cardinality(query_cache)
    IN  /\ cpc[c] = "cleanup_count"
        /\ cpc' = [cpc EXCEPT ![c] = IF count > maxSize THEN "cleanup_evict" ELSE "idle"]
        /\ cloc' = [cloc EXCEPT ![c] =
                        IF count > maxSize THEN [cloc[c] EXCEPT !.count = count]
                                           ELSE IdleLocals]
        /\ UNCHANGED <<now, tz, ttl, maxSize, query_cache, lastOp, alertVars>>

\* cleanup_expired_cache: DELETE of the cleanup_count least recently accessed rows
CleanupEvict(c) ==
    /\ cpc[c] = "cleanup_evict"
    /\ \E S \in LRUVictims(query_cache, cloc[c].count - maxSize + EvictionSlack) :
          query_cache' = query_cache \ S
    /\ cpc' = [cpc EXCEPT ![c] = "idle"]
    /\ cloc' = [cloc EXCEPT ![c] = IdleLocals]
    /\ UNCHANGED <<now, tz, ttl, maxSize, lastOp, alertVars>>

CallerStep ==
    \E c \in Callers :
        \/ \E q \in ConcQueries : GetSelect(c, q)
        \/ GetUpdate(c)
        \/ \E q \in ConcQueries, r \in Payloads :
              PutBegin(c, q, r, PyStr([row_count |-> 1]))
        \/ PutInsert(c)
        \/ CleanupDelete(c)
        \/ CleanupCount(c)
        \/ CleanupEvict(c)

\* the clock advances while callers are in flight
ConcTick == now < MaxConcTime /\ Tick

NextConc == ConcTick \/ CallerStep

\* get_cached_result and cache_result of several callers, interleaved
SpecConc == Init /\ [][NextConc]_vars

\* ------------------------------------------------------------------ alerts
Conditions == {">", "<", ">=", "<=", "=", "!="}
Methods == {"email", "slack", "both"}
MetricValues == 0..MaxMetric

\* a row of table alerts as create_alert inserts it: is_active, trigger_count
\* and the timestamps take their column defaults
AlertRow(id, user_id, condition, threshold_value, notification_method, sql_query) ==
    [id |-> id, user_id |-> user_id, alert_name |-> <<"alert", id>>,
     metric |-> "metric", threshold_value |-> threshold_value,
     condition |-> condition, notification_method |-> notification_method,
     sql_query |-> sql_query, is_active |-> TRUE, last_checked |-> Null,
     last_triggered |-> Null, trigger_count |-> 0, created_at |-> 0]

\* check_alert_condition: the if / elif chain over the six comparators
StrictAsNonStrict(condition, metric_value, threshold) ==
    IF condition = ">" THEN metric_value >= threshold
    ELSE IF condition = "<" THEN metric_value <= threshold
    ELSE IF condition = ">=" THEN metric_value >= threshold
    ELSE IF condition = "<=" THEN metric_value <= threshold
    ELSE IF condition = "=" THEN metric_value = threshold
    ELSE IF condition = "!=" THEN metric_value # threshold
    ELSE FALSE
CheckCondition(condition, metric_value, threshold) ==
    IF condition = ">" THEN metric_value > threshold
    ELSE IF condition = "<" THEN metric_value < threshold
    ELSE IF condition = ">=" THEN metric_value >= threshold
    ELSE IF condition = "<=" THEN metric_value <= threshold
    ELSE IF condition = "=" THEN metric_value = threshold
    ELSE IF condition = "!=" THEN metric_value # threshold
    ELSE FALSE

\* the columns of a row whose value is an int or a float
NumericColumns(row) == {j \in 1..Len(row) : row[j].kind = "num"}

\* check_alert_condition: the value of the first such column, metric_value
\* stays None when there is none
NoMetric == [found |-> FALSE, value |-> 0]
MetricDefaultsToZero(row) ==
    IF NumericColumns(row) = {}
    THEN [found |-> TRUE, value |-> 0]
    ELSE LET j == CHOOSE k \in NumericColumns(row) :
                      \A l \in NumericColumns(row) : k <= l
         IN  [found |-> TRUE, value |-> row[j].v]
ExtractMetric(row) ==
    IF NumericColumns(row) = {}
    THEN NoMetric
    ELSE LET j == CHOOSE k \in NumericColumns(row) :
                      \A l \in NumericColumns(row) : k <= l
         IN  [found |-> TRUE, value |-> row[j].v]

\* check_alert_condition on the rows execute_query returned
ConditionOnData(alert, data) ==
    IF data = <<>>
    THEN [condition_met |-> FALSE, metric_value |-> 0]
    ELSE LET m == ExtractMetric(data[1])
         IN  IF ~m.found
             THEN [condition_met |-> FALSE, metric_value |-> 0]
             ELSE [condition_met |->
                       CheckCondition(alert.condition, m.value, alert.threshold_value),
                   metric_value |-> m.value]

\* check_alert_condition when execute_query raised: except Exception
ConditionOnError == [condition_met |-> FALSE, metric_value |-> 0]

\* process_triggered_alert: notification_sent over the channels the method selects
EmailSelected(method) == method \in {"email", "both"}
SlackOnlyMethod(method) == method = "slack"
SlackSelected(method) == method \in {"slack", "both"}
LastChannelWins(method, email_sent, slack_sent) ==
    IF SlackSelected(method) THEN slack_sent
    ELSE EmailSelected(method) /\ email_sent
NotificationSent(method, email_sent, slack_sent) ==
    LET afterEmail == IF EmailSelected(method) THEN (FALSE \/ email_sent) ELSE FALSE
    IN  IF SlackSelected(method) THEN (afterEmail \/ slack_sent) ELSE afterEmail

\* the message text process_triggered_alert renders
AlertMessage(alert, metric_value) ==
    [alert_name |-> alert.alert_name, metric |-> alert.metric,
     value |-> metric_value, condition |-> alert.condition,
     threshold |-> alert.threshold_value, time |-> now + tz,
     query |-> alert.sql_query]

\* INSERT INTO alert_history (alert_id, metric_value, threshold_value, message,
\* notification_sent); triggered_at takes its default
HistoryRow(alert, metric_value, notification_sent) ==
    [alert_id |-> alert.id, triggered_at |-> now, metric_value |-> metric_value,
     threshold_value |-> alert.threshold_value,
     message |-> AlertMessage(alert, metric_value),
     notification_sent |-> notification_sent]

\* the INSERT adds one row and touches no other
InsertOverwritesLast(table, row) ==
    IF table = <<>> THEN <<row>> ELSE [table EXCEPT ![Len(table)] = row]
InsertTwice(table, row) == Append(Append(table, row), row)
InsertHistory(table, row) == Append(table, row)

\* UPDATE alerts SET last_triggered = CURRENT_TIMESTAMP,
\*        trigger_count = trigger_count + 1 WHERE id = ?
CountFromSnapshot(table, alert) ==
    {IF a.id = alert.id
        THEN [a EXCEPT !.last_triggered = now, !.trigger_count = alert.trigger_count + 1]
        ELSE a : a \in table}
RecordTrigger(table, alert) ==
    {IF a.id = alert.id
        THEN [a EXCEPT !.last_triggered = now, !.trigger_count = @ + 1]
        ELSE a : a \in table}

\* UPDATE alerts SET last_checked = CURRENT_TIMESTAMP WHERE id = ?
StampChecked(table, id) ==
    {IF a.id = id THEN [a EXCEPT !.last_checked = now] ELSE a : a \in table}

\* the rows SELECT * FROM alerts WHERE is_active = TRUE returns, in id order
RECURSIVE InIdOrder(_)
InIdOrder(rows) ==
    IF rows = {} THEN <<>>
    ELSE LET first == CHOOSE a \in rows : \A b \in rows : a.id <= b.id
         IN  <<first>> \o InIdOrder(rows \ {first})

AllAlerts == InIdOrder(alerts)
ActiveAlerts == InIdOrder({a \in alerts : a.is_active})

HistoryOf(id) == SelectSeq(alert_history, LAMBDA h : h.alert_id = id)

\* ---------------------------------------------------------------- requests
\* the alert a request is evaluating
CurAlert(r) == rloc[r].batch[rloc[r].idx]

\* the positions in the batch of the evaluations (check_alert_condition) a
\* request at pc has entered and not left: the for loop of check_all_alerts
\* awaits the evaluation of one alert before it takes the next
EvaluationsInFlight(pc, loc) ==
    IF pc \in {"lookup", "warehouse"} THEN {loc.idx} ELSE {}

\* peak: the largest number of evaluations of the call in flight at once
WithPeak(pc, loc) ==
    [loc EXCEPT !.peak = IF @ < Cardinality(EvaluationsInFlight(pc, loc))
                         THEN Cardinality(EvaluationsInFlight(pc, loc)) ELSE @]

\* an element of the results list of check_all_alerts
ResultEntry(alert, error, triggered, metric_value, notification_sent) ==
    [alert_id |-> alert.id, alert_name |-> alert.alert_name, error |-> error,
     triggered |-> triggered, metric_value |-> metric_value,
     notification_sent |-> notification_sent]

\* the value check_all_alerts returns
TriggeredCountsAll(loc) ==
    [status |-> "ok",
     checked_count |-> Len(loc.batch),
     triggered_count |-> Len(loc.results),
     results |-> loc.results]
CheckAllReturn(loc) ==
    [status |-> "ok",
     checked_count |-> Len(loc.batch),
     triggered_count |-> Len(SelectSeq(loc.results, LAMBDA e : e.triggered)),
     results |-> loc.results]

\* the value test_alert returns; the key notification_sent is present only
\* when the condition was met (has_notification_sent)
TestReturn(loc, alert, has_notification_sent, notification_sent) ==
    [status |-> "ok", alert_id |-> alert.id, condition_met |-> loc.condition_met,
     metric_value |-> loc.metric_value, threshold_value |-> alert.threshold_value,
     condition |-> alert.condition, has_notification_sent |-> has_notification_sent,
     notification_sent |-> notification_sent]

NotFound == [status |-> "404"]

\* check_all_alerts: on to the next alert of the loop, or the return
NextAlert(loc) ==
    IF loc.idx < Len(loc.batch)
    THEN [pc |-> "stamp",
          loc |-> [loc EXCEPT !.idx = @ + 1, !.condition_met = FALSE,
                              !.metric_value = 0, !.raised = FALSE, !.data = <<>>,
                              !.executions = 0, !.email = "no", !.slack = "no",
                              !.notification_sent = FALSE, !.inserted = FALSE,
                              !.fault = "none"]]
    ELSE [pc |-> "done", loc |-> [loc EXCEPT !.ret = CheckAllReturn(loc)]]

\* what follows check_alert_condition in test_alert and in check_all_alerts
RetryOnError(loc0, res, raised, data) ==
    IF raised /\ loc0.executions = 1
    THEN [pc |-> "warehouse", loc |-> loc0]
    ELSE
    LET alert == loc0.batch[loc0.idx]
        loc == [loc0 EXCEPT !.condition_met = res.condition_met,
                            !.metric_value = res.metric_value,
                            !.raised = raised, !.data = data,
                            !.evals = Append(@, [alert_id |-> alert.id,
                                                 raised |-> raised,
                                                 condition_met |-> res.condition_met,
                                                 executions |-> loc0.executions])]
    IN  IF loc.kind = "test"
        THEN IF res.condition_met
             THEN [pc |-> "notify", loc |-> loc]
             ELSE [pc |-> "done",
                   loc |-> [loc EXCEPT !.ret = TestReturn(loc, alert, FALSE, FALSE)]]
        ELSE IF res.condition_met
             THEN IF alert.user_id \in users
                  THEN [pc |-> "notify", loc |-> loc]
                  ELSE NextAlert(loc)
             ELSE NextAlert([loc EXCEPT !.results =
                      Append(@, ResultEntry(alert, FALSE, FALSE, res.metric_value, FALSE))])
AfterEval(loc0, res, raised, data) ==
    LET alert == loc0.batch[loc0.idx]
        loc == [loc0 EXCEPT !.condition_met = res.condition_met,
                            !.metric_value = res.metric_value,
                            !.raised = raised, !.data = data,
                            !.evals = Append(@, [alert_id |-> alert.id,
                                                 raised |-> raised,
                                                 condition_met |-> res.condition_met,
                                                 executions |-> loc0.executions])]
    IN  IF loc.kind = "test"
        THEN IF res.condition_met
             THEN [pc |-> "notify", loc |-> loc]
             ELSE [pc |-> "done",
                   loc |-> [loc EXCEPT !.ret = TestReturn(loc, alert, FALSE, FALSE)]]
        ELSE IF res.condition_met
             THEN IF alert.user_id \in users
                  THEN [pc |-> "notify", loc |-> loc]
                  ELSE NextAlert(loc)
             ELSE NextAlert([loc EXCEPT !.results =
                      Append(@, ResultEntry(alert, FALSE, FALSE, res.metric_value, FALSE))])

\* what follows process_triggered_alert, which returned notification_sent
AfterProcess(loc, notification_sent) ==
    LET alert == loc.batch[loc.idx]
    IN  IF loc.kind = "test"
        THEN [pc |-> "done",
              loc |-> [loc EXCEPT !.ret = TestReturn(loc, alert, TRUE, notification_sent)]]
        ELSE NextAlert([loc EXCEPT !.results =
                 Append(@, ResultEntry(alert, FALSE, TRUE, loc.metric_value,
                                       notification_sent))])

SetRequest(r, x) ==
    /\ rpc' = [rpc EXCEPT ![r] = x.pc]
    /\ rloc' = [rloc EXCEPT ![r] = x.loc]

\* test_alert: the SELECT of the alert by id and owner
TestAlertBegin(r, user, alert_id) ==
    LET found == {a \in alerts : a.id = alert_id /\ a.user_id = user}
    IN  /\ rpc[r] = "idle"
        /\ user \in users
        /\ IF found = {}
           THEN SetRequest(r, [pc |-> "done",
                               loc |-> [IdleRequest EXCEPT !.kind = "test", !.user = user,
                                                           !.alert_id = alert_id,
                                                           !.ret = NotFound]])
           ELSE SetRequest(r, [pc |-> "lookup",
                               loc |-> WithPeak("lookup",
                                           [IdleRequest EXCEPT !.kind = "test",
                                                               !.user = user,
                                                               !.alert_id = alert_id,
                                                               !.batch = InIdOrder(found),
                                                               !.idx = 1])])
        /\ UNCHANGED <<now, tz, ttl, maxSize, query_cache, lastOp, cpc, cloc,
                       alert_seq, users, alerts, alert_history>>

\* check_all_alerts: the SELECT of the active alerts
CheckAllBegin(r, user) ==
    LET loc == [IdleRequest EXCEPT !.kind = "checkall", !.user = user,
                                   !.batch = ActiveAlerts, !.idx = 1]
    IN  /\ rpc[r] = "idle"
        /\ user \in users
        /\ IF ActiveAlerts = <<>>
           THEN SetRequest(r, [pc |-> "done",
                               loc |-> [loc EXCEPT !.ret = CheckAllReturn(loc)]])
           ELSE SetRequest(r, [pc |-> "stamp", loc |-> loc])
        /\ UNCHANGED <<now, tz, ttl, maxSize, query_cache, lastOp, cpc, cloc,
                       alert_seq, users, alerts, alert_history>>

\* check_all_alerts: UPDATE alerts SET last_checked
Stamp(r) ==
    /\ rpc[r] = "stamp"
    /\ alerts' = StampChecked(alerts, CurAlert(r).id)
    /\ rpc' = [rpc EXCEPT ![r] = "lookup"]
    /\ rloc' = [rloc EXCEPT ![r] = WithPeak("lookup", @)]
    /\ UNCHANGED <<now, tz, ttl, maxSize, query_cache, lastOp, cpc, cloc,
                   alert_seq, users, alert_history>>

\* execute_query: get_cached_result, and on a hit the eval of the stored text
EvalLookup(r) ==
    LET loc == rloc[r]
        alert == CurAlert(r)
        key == get_cache_key(alert.sql_query)
        results == SelectValid(query_cache, key)
    IN  /\ rpc[r] = "lookup"
        /\ IF results # {}
           THEN /\ \A x \in query_cache :
                       x.query_hash = key => x.access_count < MaxAccessCount
                /\ query_cache' = TouchRows(query_cache, key)
                /\ IF PyEvalRaises(HitResult(results).data)
                   THEN SetRequest(r, AfterEval(loc, ConditionOnError, TRUE, <<>>))
                   ELSE SetRequest(r, AfterEval(loc,
                            ConditionOnData(alert, PyEval(HitResult(results).data)),
                            FALSE, PyEval(HitResult(results).data)))
           ELSE /\ query_cache' = query_cache
                /\ rpc' = [rpc EXCEPT ![r] = "warehouse"]
                /\ rloc' = rloc
        /\ UNCHANGED <<now, tz, ttl, maxSize, lastOp, cpc, cloc,
                       alert_seq, users, alerts, alert_history>>

\* the metadata _execute_query_sync builds
QueryMetadata(sql_query, data) == [row_count |-> Len(data), query |-> sql_query]

\* execute_query: the warehouse executes the query (or raises), a non-empty
\* result is cached
EvalWarehouse(r, outcome) ==
    LET loc == [rloc[r] EXCEPT !.executions = @ + 1]
        alert == CurAlert(r)
    IN  /\ rpc[r] = "warehouse"
        /\ IF outcome.raised
           THEN /\ query_cache' = query_cache
                /\ SetRequest(r, AfterEval(loc, ConditionOnError, TRUE, <<>>))
           ELSE /\ IF outcome.data # <<>>
                   THEN \E t \in CleanupResults(
                                   InsertOrReplace(query_cache,
                                       NewCacheRow(alert.sql_query, PyStr(outcome.data),
                                           PyStr(QueryMetadata(alert.sql_query, outcome.data)),
                                           now + tz + ttl))) :
                            query_cache' = t
                   ELSE query_cache' = query_cache
                /\ SetRequest(r, AfterEval(loc, ConditionOnData(alert, outcome.data),
                                           FALSE, outcome.data))
        /\ UNCHANGED <<now, tz, ttl, maxSize, lastOp, cpc, cloc,
                       alert_seq, users, alerts, alert_history>>

\* process_triggered_alert: the notifications; a channel the method does not
\* select is not attempted
Notify(r, email_sent, slack_sent) ==
    LET method == CurAlert(r).notification_method
    IN  /\ rpc[r] = "notify"
        /\ email_sent => EmailSelected(method)
        /\ slack_sent => SlackSelected(method)
        /\ rpc' = [rpc EXCEPT ![r] = "history"]
        /\ rloc' = [rloc EXCEPT ![r] =
               [@ EXCEPT !.email = IF ~EmailSelected(method) THEN "no"
                                   ELSE IF email_sent THEN "sent" ELSE "failed",
                         !.slack = IF ~SlackSelected(method) THEN "no"
                                   ELSE IF slack_sent THEN "sent" ELSE "failed",
                         !.notification_sent =
                             NotificationSent(method, email_sent, slack_sent)]]
        /\ UNCHANGED <<now, tz, ttl, maxSize, query_cache, lastOp, cpc, cloc,
                       alert_seq, users, alerts, alert_history>>

\* process_triggered_alert: INSERT INTO alert_history
HistoryInsert(r) ==
    /\ rpc[r] = "history"
    /\ Len(alert_history) < MaxHistory
    /\ alert_history' = InsertHistory(alert_history,
           HistoryRow(CurAlert(r), rloc[r].metric_value, rloc[r].notification_sent))
    /\ rpc' = [rpc EXCEPT ![r] = "update"]
    /\ rloc' = [rloc EXCEPT ![r] = [@ EXCEPT !.inserted = TRUE]]
    /\ UNCHANGED <<now, tz, ttl, maxSize, query_cache, lastOp, cpc, cloc,
                   alert_seq, users, alerts>>

\* process_triggered_alert: UPDATE alerts SET last_triggered, trigger_count,
\* and the return of notification_sent
AlertUpdate(r) ==
    /\ rpc[r] = "update"
    /\ alerts' = RecordTrigger(alerts, CurAlert(r))
    /\ SetRequest(r, AfterProcess(rloc[r], rloc[r].notification_sent))
    /\ UNCHANGED <<now, tz, ttl, maxSize, query_cache, lastOp, cpc, cloc,
                   alert_seq, users, alert_history>>

\* the request has returned
Return(r) ==
    /\ rpc[r] = "done"
    /\ rpc' = [rpc EXCEPT ![r] = "idle"]
    /\ rloc' = [rloc EXCEPT ![r] = IdleRequest]
    /\ UNCHANGED <<now, tz, ttl, maxSize, query_cache, lastOp, cpc, cloc,
                   alert_seq, users, alerts, alert_history>>

\* ------------------------------------------------ storage failures of writes
\* execute_non_query raises (sqlite3.OperationalError): in check_all_alerts the
\* except of the loop records an error entry
StampFails(r) ==
    /\ rpc[r] = "stamp"
    /\ SetRequest(r, NextAlert([rloc[r] EXCEPT !.results =
           Append(@, ResultEntry(CurAlert(r), TRUE, FALSE, 0, FALSE))]))
    /\ UNCHANGED <<now, tz, ttl, maxSize, query_cache, lastOp, cpc, cloc,
                   alert_seq, users, alerts, alert_history>>

\* the INSERT INTO alert_history raises: process_triggered_alert returns False
HistoryInsertFails(r) ==
    /\ rpc[r] = "history"
    /\ SetRequest(r, AfterProcess(rloc[r], FALSE))
    /\ UNCHANGED <<now, tz, ttl, maxSize, query_cache, lastOp, cpc, cloc,
                   alert_seq, users, alerts, alert_history>>

\* the UPDATE of alerts raises after the history row was committed:
\* process_triggered_alert returns False
AlertUpdateFails(r) ==
    /\ rpc[r] = "update"
    /\ SetRequest(r, AfterProcess(rloc[r], FALSE))
    /\ UNCHANGED <<now, tz, ttl, maxSize, query_cache, lastOp, cpc, cloc,
                   alert_seq, users, alerts, alert_history>>

\* ------------------------------------------------- evaluation of one alert
\* what the warehouse can answer: an error, no rows, or rows of one or two cells
Cells == {IntVal(n) : n \in MetricValues} \cup {StrVal, NoneVal, OtherVal}
Rows == {<<c>> : c \in Cells} \cup {<<c, d>> : c \in Cells, d \in {IntVal(MaxMetric), StrVal}}
DataSets ==
    {<<>>} \cup {<<row>> : row \in Rows}
           \cup {<<row, <<IntVal(MaxMetric)>> >> : row \in {<<IntVal(0)>>, <<StrVal>>}}
EvalOutcomes ==
    {[raised |-> TRUE, data |-> <<>>]} \cup {[raised |-> FALSE, data |-> d] : d \in DataSets}

Thresholds == 0..MaxMetric
EvalRequests == {1}

\* one user owning one alert, of any comparator and threshold
InitEval ==
    /\ InitCache
    /\ users = {1}
    /\ \E c \in Conditions, t \in Thresholds :
           alerts = {AlertRow(1, 1, c, t, "email", 1)}
    /\ alert_seq = 1
    /\ alert_history = <<>>
    /\ rpc = [r \in Requests |-> "idle"]
    /\ rloc = [r \in Requests |-> IdleRequest]

EvalBegin == \E r \in EvalRequests, id \in {1, 2} : TestAlertBegin(r, 1, id)
EvalCache == \E r \in EvalRequests : EvalLookup(r)
EvalQuery == \E r \in EvalRequests, o \in EvalOutcomes : EvalWarehouse(r, o)
EvalNotify == \E r \in EvalRequests, e \in BOOLEAN, k \in BOOLEAN : Notify(r, e, k)
EvalHistory == \E r \in EvalRequests : HistoryInsert(r)
EvalUpdate == \E r \in EvalRequests : AlertUpdate(r)
EvalReturn == \E r \in EvalRequests : Return(r)

NextEval ==
    \/ EvalBegin
    \/ EvalCache
    \/ EvalQuery
    \/ EvalNotify
    \/ EvalHistory
    \/ EvalUpdate
    \/ EvalReturn

\* test_alert called again and again on one alert
SpecEval == InitEval /\ [][NextEval]_vars

\* ------------------------------------------------ processing of a trigger
\* what the warehouse answers to the query of an alert that is being triggered
TriggerOutcomes ==
    {[raised |-> TRUE, data |-> <<>>], [raised |-> FALSE, data |-> <<>>]}
        \cup {[raised |-> FALSE, data |-> << <<IntVal(n)>> >>] : n \in MetricValues}

\* one user owning one alert of any notification method, met by every metric
InitTrigger ==
    /\ InitCache
    /\ users = {1}
    /\ \E m \in Methods : alerts = {AlertRow(1, 1, ">=", 0, m, 1)}
    /\ alert_seq = 1
    /\ alert_history = <<>>
    /\ rpc = [r \in Requests |-> "idle"]
    /\ rloc = [r \in Requests |-> IdleRequest]

TriggerBegin == \E r \in Requests : TestAlertBegin(r, 1, 1)
TriggerCache == \E r \in Requests : EvalLookup(r)
TriggerQuery == \E r \in Requests, o \in TriggerOutcomes : EvalWarehouse(r, o)
TriggerNotify == \E r \in Requests, e \in BOOLEAN, k \in BOOLEAN : Notify(r, e, k)
TriggerHistory == \E r \in Requests : HistoryInsert(r)
TriggerUpdate == \E r \in Requests : AlertUpdate(r)
TriggerHistoryFails == \E r \in Requests : HistoryInsertFails(r)
TriggerUpdateFails == \E r \in Requests : AlertUpdateFails(r)

NextTrigger ==
    \/ TriggerBegin
    \/ TriggerCache
    \/ TriggerQuery
    \/ TriggerNotify
    \/ TriggerHistory
    \/ TriggerUpdate

\* two test_alert calls on one alert, interleaved, each made once
SpecTrigger == InitTrigger /\ [][NextTrigger]_vars

NextTriggerFaulty ==
    \/ NextTrigger
    \/ TriggerHistoryFails
    \/ TriggerUpdateFails

\* the same, where a write to the application database can fail
SpecTriggerFaulty == InitTrigger /\ [][NextTriggerFaulty]_vars

\* ------------------------------------------------------- check_all_alerts
NumAlerts == 3
CheckOutcomes ==
    {[raised |-> TRUE, data |-> <<>>], [raised |-> FALSE, data |-> <<>>]}
        \cup {[raised |-> FALSE, data |-> << <<IntVal(n)>> >>] : n \in {0, MaxMetric}}

\* one user owning NumAlerts active alerts, each with a query of its own
InitCheckAll ==
    /\ InitCache
    /\ users = {1}
    /\ alerts = {AlertRow(id, 1, ">", 1, "email", id) : id \in 1..NumAlerts}
    /\ alert_seq = NumAlerts
    /\ alert_history = <<>>
    /\ rpc = [r \in Requests |-> "idle"]
    /\ rloc = [r \in Requests |-> IdleRequest]

CheckBegin == \E r \in EvalRequests : CheckAllBegin(r, 1)
CheckStamp == \E r \in EvalRequests : Stamp(r)
CheckCache == \E r \in EvalRequests : EvalLookup(r)
CheckQuery == \E r \in EvalRequests, o \in CheckOutcomes : EvalWarehouse(r, o)
CheckNotify == \E r \in EvalRequests, e \in BOOLEAN : Notify(r, e, FALSE)
CheckHistory == \E r \in EvalRequests : HistoryInsert(r)
CheckUpdate == \E r \in EvalRequests : AlertUpdate(r)
CheckReturn == \E r \in EvalRequests : Return(r)

NextCheckAll ==
    \/ CheckBegin
    \/ CheckStamp
    \/ CheckCache
    \/ CheckQuery
    \/ CheckNotify
    \/ CheckHistory
    \/ CheckUpdate
    \/ CheckReturn

\* check_all_alerts called again and again over the same alerts
SpecCheckAll == InitCheckAll /\ [][NextCheckAll]_vars

\* ------------------------------------------- storage failures of the cache
\* get_cached_result: the SELECT, or the UPDATE after a hit, raises
\* (sqlite3.Error); nothing catches it in get_cached_result, and execute_query
\* calls it outside its try block, so execute_query raises without a
\* warehouse execution
EvalLookupFails(r, stage) ==
    LET results == SelectValid(query_cache, get_cache_key(CurAlert(r).sql_query))
    IN  /\ rpc[r] = "lookup"
        /\ stage \in {"select", "touch"}
        /\ stage = "touch" => results # {}
        /\ SetRequest(r, AfterEval([rloc[r] EXCEPT !.fault = stage],
                                   ConditionOnError, TRUE, <<>>))
        /\ UNCHANGED <<now, tz, ttl, maxSize, query_cache, lastOp, cpc, cloc,
                       alert_seq, users, alerts, alert_history>>

\* the tables a cache_result that raises can leave: the INSERT failed, or it
\* committed and cleanup_expired_cache failed at its DELETE, or after it
StoreFailureResults(table, row) ==
    {table, InsertOrReplace(table, row), DeleteExpired(InsertOrReplace(table, row))}

\* execute_query: the warehouse answers with rows, cache_result raises inside
\* the try block, and the except clause raises Exception("Database query failed")
EvalStoreFails(r, outcome) ==
    LET alert == CurAlert(r)
        row == NewCacheRow(alert.sql_query, PyStr(outcome.data),
                   PyStr(QueryMetadata(alert.sql_query, outcome.data)), now + tz + ttl)
    IN  /\ rpc[r] = "warehouse"
        /\ ~outcome.raised
        /\ outcome.data # <<>>
        /\ query_cache' \in StoreFailureResults(query_cache, row)
        /\ SetRequest(r, AfterEval([rloc[r] EXCEPT !.executions = @ + 1,
                                                   !.fault = "store"],
                                   ConditionOnError, TRUE, <<>>))
        /\ UNCHANGED <<now, tz, ttl, maxSize, lastOp, cpc, cloc,
                       alert_seq, users, alerts, alert_history>>

EvalCacheFails ==
    \E r \in EvalRequests, stage \in {"select", "touch"} : EvalLookupFails(r, stage)
EvalCachingFails == \E r \in EvalRequests, o \in TriggerOutcomes : EvalStoreFails(r, o)
EvalQueryFaulty == \E r \in EvalRequests, o \in TriggerOutcomes : EvalWarehouse(r, o)

NextEvalFaulty ==
    \/ EvalBegin
    \/ EvalCache
    \/ EvalQueryFaulty
    \/ EvalNotify
    \/ EvalHistory
    \/ EvalUpdate
    \/ EvalReturn
    \/ EvalCacheFails
    \/ EvalCachingFails

\* test_alert called again and again, where an access to the cache table can fail
SpecEvalFaulty == InitEval /\ [][NextEvalFaulty]_vars

\* -------------------------------------------------- alert definitions: CRUD
\* a query text, by what validate_sql_query looks at: whether the upper-cased
\* text contains a forbidden keyword, whether it contains SELECT, WITH, SHOW or
\* DESCRIBE, whether its parentheses and its quotes are balanced
SqlText(text, forbidden, reading, parens, quotes) ==
    [text |-> text, forbidden |-> forbidden, reading |-> reading,
     parens |-> parens, quotes |-> quotes]

AcceptAnyQuery(sql_query) == TRUE
validate_sql_query(sql_query) ==
    IF sql_query.forbidden THEN FALSE
    ELSE IF ~sql_query.reading THEN FALSE
    ELSE IF ~sql_query.parens THEN FALSE
    ELSE IF ~sql_query.quotes THEN FALSE
    ELSE TRUE

\* an Optional field of AlertUpdate: None, or a value
Unset(default) == [set |-> FALSE, v |-> default]
Set(v) == [set |-> TRUE, v |-> v]

BadRequest == [status |-> "400"]
ServerError == [status |-> "500"]

\* the row SELECT * FROM alerts WHERE id = ? AND user_id = ? finds
OwnAlert(alert_id, user) == {a \in alerts : a.id = alert_id /\ a.user_id = user}

\* create_alert: the three validations, then the INSERT
CreateAlertBegin(r, user, data) ==
    LET id == alert_seq + 1
        row == [AlertRow(id, user, data.condition, data.threshold_value,
                         data.notification_method, data.sql_query)
                   EXCEPT !.alert_name = data.alert_name, !.created_at = now]
        loc == [IdleRequest EXCEPT !.kind = "create", !.user = user, !.input = data]
    IN  /\ rpc[r] = "idle"
        /\ user \in users
        /\ IF \/ data.condition \notin Conditions
              \/ data.notification_method \notin Methods
              \/ ~validate_sql_query(data.sql_query)
           THEN /\ SetRequest(r, [pc |-> "done", loc |-> [loc EXCEPT !.ret = BadRequest]])
                /\ UNCHANGED <<alerts, alert_seq>>
           ELSE /\ alert_seq < MaxAlerts
                /\ alerts' = alerts \cup {row}
                /\ alert_seq' = id
                /\ SetRequest(r, [pc |-> "created", loc |-> loc])
        /\ UNCHANGED <<now, tz, ttl, maxSize, query_cache, lastOp, cpc, cloc,
                       users, alert_history>>

\* create_alert: SELECT * FROM alerts WHERE user_id = ? ORDER BY created_at DESC
\* LIMIT 1; the order among rows of one created_at is not specified
CreateAlertSelect(r) ==
    LET mine == {a \in alerts : a.user_id = rloc[r].user}
        latest == {a \in mine : \A b \in mine : b.created_at <= a.created_at}
    IN  /\ rpc[r] = "created"
        /\ IF latest = {}
           THEN SetRequest(r, [pc |-> "done", loc |-> [rloc[r] EXCEPT !.ret = ServerError]])
           ELSE \E a \in latest :
                    SetRequest(r, [pc |-> "done",
                                   loc |-> [rloc[r] EXCEPT
                                               !.ret = [status |-> "ok", alert |-> a]]])
        /\ UNCHANGED <<now, tz, ttl, maxSize, query_cache, lastOp, cpc, cloc,
                       alert_seq, users, alerts, alert_history>>

\* get_alert
GetAlert(r, user, alert_id) ==
    LET loc == [IdleRequest EXCEPT !.kind = "get", !.user = user, !.alert_id = alert_id]
    IN  /\ rpc[r] = "idle"
        /\ user \in users
        /\ IF OwnAlert(alert_id, user) = {}
           THEN SetRequest(r, [pc |-> "done", loc |-> [loc EXCEPT !.ret = NotFound]])
           ELSE \E a \in OwnAlert(alert_id, user) :
                    SetRequest(r, [pc |-> "done",
                                   loc |-> [loc EXCEPT !.ret = [status |-> "ok", alert |-> a]]])
        /\ UNCHANGED <<now, tz, ttl, maxSize, query_cache, lastOp, cpc, cloc,
                       alert_seq, users, alerts, alert_history>>

\* update_alert: the fields that are not None replace the stored ones
UpdateResetsCount(a, alert_update) ==
    [a EXCEPT !.alert_name = IF alert_update.alert_name.set
                             THEN alert_update.alert_name.v ELSE @,
              !.threshold_value = IF alert_update.threshold_value.set
                                  THEN alert_update.threshold_value.v ELSE @,
              !.condition = IF alert_update.condition.set
                            THEN alert_update.condition.v ELSE @,
              !.notification_method = IF alert_update.notification_method.set
                                      THEN alert_update.notification_method.v ELSE @,
              !.is_active = IF alert_update.is_active.set
                            THEN alert_update.is_active.v ELSE @,
              !.trigger_count = 0]
ApplyUpdate(a, alert_update) ==
    [a EXCEPT !.alert_name = IF alert_update.alert_name.set
                             THEN alert_update.alert_name.v ELSE @,
              !.threshold_value = IF alert_update.threshold_value.set
                                  THEN alert_update.threshold_value.v ELSE @,
              !.condition = IF alert_update.condition.set
                            THEN alert_update.condition.v ELSE @,
              !.notification_method = IF alert_update.notification_method.set
                                      THEN alert_update.notification_method.v ELSE @,
              !.is_active = IF alert_update.is_active.set
                            THEN alert_update.is_active.v ELSE @]

\* update_alert: whether update_fields stays empty
NoFields(alert_update) ==
    /\ ~alert_update.alert_name.set
    /\ ~alert_update.threshold_value.set
    /\ ~alert_update.condition.set
    /\ ~alert_update.notification_method.set
    /\ ~alert_update.is_active.set

\* update_alert: no await between its statements
UpdateAlert(r, user, alert_id, alert_update) ==
    LET loc == [IdleRequest EXCEPT !.kind = "update", !.user = user,
                                   !.alert_id = alert_id, !.input = alert_update]
    IN  /\ rpc[r] = "idle"
        /\ user \in users
        /\ IF OwnAlert(alert_id, user) = {}
           THEN /\ SetRequest(r, [pc |-> "done", loc |-> [loc EXCEPT !.ret = NotFound]])
                /\ alerts' = alerts
           ELSE IF \/ (alert_update.condition.set
                          /\ alert_update.condition.v \notin Conditions)
                   \/ (alert_update.notification_method.set
                          /\ alert_update.notification_method.v \notin Methods)
                   \/ NoFields(alert_update)
           THEN /\ SetRequest(r, [pc |-> "done", loc |-> [loc EXCEPT !.ret = BadRequest]])
                /\ alerts' = alerts
           ELSE /\ alerts' = {IF a \in OwnAlert(alert_id, user)
                                 THEN ApplyUpdate(a, alert_update) ELSE a : a \in alerts}
                /\ \E a \in OwnAlert(alert_id, user) :
                       SetRequest(r, [pc |-> "done",
                                      loc |-> [loc EXCEPT !.ret =
                                          [status |-> "ok",
                                           alert |-> ApplyUpdate(a, alert_update)]]])
        /\ UNCHANGED <<now, tz, ttl, maxSize, query_cache, lastOp, cpc, cloc,
                       alert_seq, users, alert_history>>

\* delete_alert: DELETE FROM alerts WHERE id = ? AND user_id = ?. The
\* connections never set PRAGMA foreign_keys = ON, so SQLite does not apply
\* the ON DELETE CASCADE of alert_history
DeleteAlert(r, user, alert_id) ==
    LET loc == [IdleRequest EXCEPT !.kind = "delete", !.user = user, !.alert_id = alert_id]
    IN  /\ rpc[r] = "idle"
        /\ user \in users
        /\ IF OwnAlert(alert_id, user) = {}
           THEN /\ SetRequest(r, [pc |-> "done", loc |-> [loc EXCEPT !.ret = NotFound]])
                /\ alerts' = alerts
           ELSE /\ alerts' = alerts \ OwnAlert(alert_id, user)
                /\ SetRequest(r, [pc |-> "done",
                                  loc |-> [loc EXCEPT !.ret = [status |-> "ok"]]])
        /\ UNCHANGED <<now, tz, ttl, maxSize, query_cache, lastOp, cpc, cloc,
                       alert_seq, users, alert_history>>

\* the orders SELECT ... ORDER BY triggered_at DESC can return rows in
NewestFirst(rows) ==
    {[i \in 1..Len(rows) |-> rows[p[i]]] :
        p \in {q \in [1..Len(rows) -> 1..Len(rows)] :
                  /\ \A i, j \in 1..Len(rows) : i # j => q[i] # q[j]
                  /\ \A i, j \in 1..Len(rows) :
                         i < j => rows[q[i]].triggered_at >= rows[q[j]].triggered_at}}

\* get_alert_history, with a limit no smaller than the number of rows
GetAlertHistory(r, user, alert_id) ==
    LET loc == [IdleRequest EXCEPT !.kind = "history", !.user = user, !.alert_id = alert_id]
    IN  /\ rpc[r] = "idle"
        /\ user \in users
        /\ IF OwnAlert(alert_id, user) = {}
           THEN SetRequest(r, [pc |-> "done", loc |-> [loc EXCEPT !.ret = NotFound]])
           ELSE \E h \in NewestFirst(HistoryOf(alert_id)) :
                    SetRequest(r, [pc |-> "done",
                                   loc |-> [loc EXCEPT !.ret =
                                       [status |-> "ok", alert_id |-> alert_id,
                                        history |-> h, count |-> Len(h)]]])
        /\ UNCHANGED <<now, tz, ttl, maxSize, query_cache, lastOp, cpc, cloc,
                       alert_seq, users, alerts, alert_history>>

\* ------------------------------------------- two users and their alerts
UserIds == {1, 2}
AlertIds == 1..MaxAlerts

ReadQuery == SqlText(1, FALSE, TRUE, TRUE, TRUE)

\* request bodies of create_alert: a valid one, and ones with a comparator, a
\* method or a query that the validations refuse
ValidCreate ==
    [alert_name |-> <<"name", 1>>, threshold_value |-> 1, condition |-> ">=",
     notification_method |-> "email", sql_query |-> ReadQuery]
AlertCreates ==
    {ValidCreate,
     [ValidCreate EXCEPT !.condition = "=>"],
     [ValidCreate EXCEPT !.notification_method = "sms"],
     [ValidCreate EXCEPT !.sql_query = SqlText(2, TRUE, TRUE, TRUE, TRUE)],
     [ValidCreate EXCEPT !.sql_query = SqlText(3, FALSE, FALSE, TRUE, TRUE)],
     [ValidCreate EXCEPT !.sql_query = SqlText(4, FALSE, TRUE, FALSE, TRUE)],
     [ValidCreate EXCEPT !.sql_query = SqlText(5, FALSE, TRUE, TRUE, FALSE)]}

\* request bodies of update_alert
NoUpdate ==
    [alert_name |-> Unset(<<>>), threshold_value |-> Unset(0), condition |-> Unset(""),
     notification_method |-> Unset(""), is_active |-> Unset(FALSE)]
AlertUpdates ==
    {NoUpdate,
     [NoUpdate EXCEPT !.condition = Set("<")],
     [NoUpdate EXCEPT !.notification_method = Set("both")],
     [NoUpdate EXCEPT !.is_active = Set(FALSE)],
     [NoUpdate EXCEPT !.threshold_value = Set(MaxMetric), !.condition = Set("=>")],
     [NoUpdate EXCEPT !.alert_name = Set(<<"name", 2>>),
                      !.notification_method = Set("sms")]}

CrudOutcomes ==
    {[raised |-> TRUE, data |-> <<>>],
     [raised |-> FALSE, data |-> << <<IntVal(MaxMetric)>> >>]}

\* two registered users, no alert yet
InitCrud ==
    /\ InitCache
    /\ tz = 0
    /\ ttl = MaxTTL
    /\ maxSize = MaxMaxCacheSize
    /\ users = UserIds
    /\ alerts = {}
    /\ alert_history = <<>>
    /\ alert_seq = 0
    /\ rpc = [r \in Requests |-> "idle"]
    /\ rloc = [r \in Requests |-> IdleRequest]

NextCrud ==
    \/ \E r \in EvalRequests, u \in UserIds, d \in AlertCreates : CreateAlertBegin(r, u, d)
    \/ \E r \in EvalRequests : CreateAlertSelect(r)
    \/ \E r \in EvalRequests, u \in UserIds, id \in AlertIds : GetAlert(r, u, id)
    \/ \E r \in EvalRequests, u \in UserIds, id \in AlertIds, d \in AlertUpdates :
           UpdateAlert(r, u, id, d)
    \/ \E r \in EvalRequests, u \in UserIds, id \in AlertIds : DeleteAlert(r, u, id)
    \/ \E r \in EvalRequests, u \in UserIds, id \in AlertIds : GetAlertHistory(r, u, id)
    \/ \E r \in EvalRequests, u \in UserIds, id \in AlertIds : TestAlertBegin(r, u, id)
    \/ \E r \in EvalRequests, u \in UserIds : CheckAllBegin(r, u)
    \/ \E r \in EvalRequests : Stamp(r)
    \/ \E r \in EvalRequests : EvalLookup(r)
    \/ \E r \in EvalRequests, o \in CrudOutcomes : EvalWarehouse(r, o)
    \/ \E r \in EvalRequests, e \in BOOLEAN, k \in BOOLEAN : Notify(r, e, k)
    \/ \E r \in EvalRequests : HistoryInsert(r)
    \/ \E r \in EvalRequests : AlertUpdate(r)
    \/ \E r \in EvalRequests : Return(r)

\* the alert endpoints called one after another by two users
SpecCrud == InitCrud /\ [][NextCrud]_vars

\* ------------------------------------------------- a cache that fills up
BigCacheSize == 11

\* settings.MAX_CACHE_SIZE below and above the 10 rows that the eviction
\* removes beyond the excess
InitEvict ==
    /\ now = 0
    /\ tz \in TzOffsets
    /\ ttl \in TTLs
    /\ maxSize \in CacheSizes \cup {BigCacheSize}
    /\ query_cache = {}
    /\ lastOp = NoOp
    /\ cpc = [c \in Callers |-> "idle"]
    /\ cloc = [c \in Callers |-> IdleLocals]
    /\ users = {}
    /\ alerts = {}
    /\ alert_history = <<>>
    /\ alert_seq = 0
    /\ rpc = [r \in Requests |-> "idle"]
    /\ rloc = [r \in Requests |-> IdleRequest]

\* the texts a caller puts next: the first text again, or a text never put
\* before (texts are put in increasing order)
FreshQueries ==
    {q \in PutQueries :
        \/ q = 1 /\ q \in CachedQueries
        \/ /\ \A p \in CachedQueries : p < q
           /\ q = 1 \/ q - 1 \in CachedQueries}

NextEvict ==
    \/ Tick
    \/ \E q \in FreshQueries :
           CacheResult(q, PyStr(<< <<IntVal(1)>> >>), PyStr([row_count |-> 1]))
    \/ \E q \in ConcQueries : GetCachedResult(q)

\* cache_result on ever new query texts, with lookups of the first ones
SpecEvict == InitEvict /\ [][NextEvict]_vars

\* ------------------------------------------- query texts of the same words
NumWordings == 2
NumLayouts == 2

\* a query text: its words, and how they are laid out (the whitespace between
\* them, a trailing LIMIT clause that changes no row of the answer)
QueryTexts == {[words |-> w, layout |-> l] : w \in 1..NumWordings, l \in 1..NumLayouts}

NextTexts ==
    \/ Tick
    \/ \E q \in QueryTexts, r \in Payloads : CacheResult(q, r, PyStr([row_count |-> 1]))
    \/ \E q \in QueryTexts : GetCachedResult(q)

\* cache_result and get_cached_result on texts that differ in layout only
SpecTexts == Init /\ [][NextTexts]_vars

\* ------------------------------- requests on one alert, interleaved
\* two requests of one user in flight at a time: create_alert, update_alert,
\* delete_alert and test_alert, a step of one between the awaits of the other
NextShared ==
    \/ \E r \in Requests : CreateAlertBegin(r, 1, ValidCreate)
    \/ \E r \in Requests : CreateAlertSelect(r)
    \/ \E r \in Requests, d \in AlertUpdates : UpdateAlert(r, 1, 1, d)
    \/ \E r \in Requests : DeleteAlert(r, 1, 1)
    \/ \E r \in Requests : TestAlertBegin(r, 1, 1)
    \/ \E r \in Requests : EvalLookup(r)
    \/ \E r \in Requests, o \in CrudOutcomes : EvalWarehouse(r, o)
    \/ \E r \in Requests : Notify(r, TRUE, FALSE)
    \/ \E r \in Requests : HistoryInsert(r)
    \/ \E r \in Requests : AlertUpdate(r)
    \/ \E r \in Requests : Return(r)

SpecShared == InitCrud /\ [][NextShared]_vars

\* ------------------------------------------- create_alert, call after call
\* two valid request bodies that differ in name and threshold
ValidCreates ==
    {ValidCreate,
     [ValidCreate EXCEPT !.alert_name = <<"name", 2>>, !.threshold_value = MaxMetric]}

NextCreate ==
    \/ Tick
    \/ \E r \in EvalRequests, u \in UserIds, d \in ValidCreates : CreateAlertBegin(r, u, d)
    \/ \E r \in EvalRequests : CreateAlertSelect(r)
    \/ \E r \in EvalRequests, u \in UserIds, id \in AlertIds : GetAlert(r, u, id)
    \/ \E r \in EvalRequests, u \in UserIds, id \in AlertIds : DeleteAlert(r, u, id)
    \/ \E r \in EvalRequests : Return(r)

\* create_alert, get_alert and delete_alert of two users, one call at a time,
\* within one second (CURRENT_TIMESTAMP) or seconds apart
SpecCreate == InitCrud /\ [][NextCreate]_vars

\* ----------------------------------------------------------------- claims
ActiveEntries == {r \in query_cache : r.expires_at > now}

\* C1: cache_result(q, r, m) followed immediately by get_cached_result(q),
\* before the TTL has elapsed, returns a hit whose data is r and whose
\* metadata is m, for every TTL > 0, every max cache size >= 1 and whatever
\* the cache held before.
C1_PutThenGetReturnsPut ==
    [][(/\ lastOp.op = "put"
        /\ lastOp'.op = "get"
        /\ lastOp'.q = lastOp.q
        /\ now' < lastOp.at + ttl)
       => (/\ lastOp'.result.hit
           /\ lastOp'.result.data = lastOp.r
           /\ lastOp'.result.metadata = lastOp.m)]_vars

\* C2: once the clock has passed created_at + TTL of a stored entry, the
\* lookup of its query is a miss, also while the row is still stored.
C2_ExpiredIsMiss ==
    \A q \in Queries : \A r \in query_cache :
        (r.query_hash = get_cache_key(q) /\ now > r.created_at + ttl)
            => ~Lookup(q).hit

\* C3: after any sequence of cache_result calls, each with its maintenance
\* step, the number of non-expired entries is at most max_size + 10 - 1.
C3_ActiveCountBounded == Cardinality(ActiveEntries) <= maxSize + 10 - 1

\* a cache_result whose entry could not have expired left the cache empty:
\* the size limit was exceeded and the eviction ran
C3_Witness ==
    /\ lastOp.op = "put"
    /\ tz = 0
    /\ lastOp.at = now
    /\ query_cache = {}

\* C4: under every interleaving of get_cached_result and cache_result calls
\* of several callers, on the same or on different query texts, the cache
\* never holds two entries with the same query hash.
C4_OneEntryPerHash ==
    \A r1 \in query_cache : \A r2 \in query_cache :
        r1.query_hash = r2.query_hash => r1 = r2

\* two callers have both inserted different payloads for the same query text
\* and neither has finished its cache_result
C4_Witness ==
    /\ cpc[1] = "cleanup_delete"
    /\ cpc[2] = "cleanup_count"
    /\ cloc[1].q = cloc[2].q
    /\ cloc[1].r # cloc[2].r
    /\ \E r \in query_cache : r.sql_query = cloc[1].q

\* C5: in check_all_alerts an alert whose query execution raised has an entry
\* carrying an error, every other evaluated alert has a non-error entry, and
\* checked_count is the number of active alerts
C5_RaisingQueryYieldsErrorEntry ==
    \A r \in Requests :
        (rpc[r] = "done" /\ rloc[r].kind = "checkall") =>
            /\ rloc[r].ret.checked_count = Len(rloc[r].batch)
            /\ Len(rloc[r].evals) = Len(rloc[r].batch)
            /\ \A i \in 1..Len(rloc[r].evals) :
                   \E j \in 1..Len(rloc[r].ret.results) :
                       /\ rloc[r].ret.results[j].alert_id = rloc[r].evals[i].alert_id
                       /\ rloc[r].ret.results[j].error = rloc[r].evals[i].raised

\* C6: with no trigger processing in flight, each alert's trigger_count is the
\* number of alert_history records of that alert, also after a failed write
C6_TriggerCountMatchesHistory ==
    (\A r \in Requests : rpc[r] \notin {"notify", "history", "update"}) =>
        \A a \in alerts : a.trigger_count = Len(HistoryOf(a.id))

\* C7: each completed call of process_triggered_alert has appended exactly one
\* history record and raised trigger_count by exactly 1, a call between its
\* two writes has appended its record, and nothing else has changed either:
\* two calls give two records and a count of 2, also when they interleave
C7_EachCallRecordsOnce ==
    LET completed == {r \in Requests : /\ rpc[r] = "done"
                                       /\ rloc[r].ret.status = "ok"
                                       /\ rloc[r].ret.has_notification_sent}
        written == {r \in Requests : rpc[r] = "update"}
    IN  \A a \in alerts :
            /\ a.trigger_count = Cardinality(completed)
            /\ Len(HistoryOf(a.id)) = Cardinality(completed) + Cardinality(written)
            /\ Len(alert_history) = Len(HistoryOf(a.id))

\* two calls that both read the alert before either wrote have both returned
C7_Witness ==
    /\ \A r \in Requests : /\ rpc[r] = "done"
                           /\ rloc[r].ret.status = "ok"
                           /\ rloc[r].ret.has_notification_sent
                           /\ rloc[r].batch[1].trigger_count = 0
    /\ \A a \in alerts : a.trigger_count = 2 /\ Len(HistoryOf(a.id)) = 2

\* C8: notification_sent is the OR of the outcomes of the channels the method
\* selects, a channel it does not select is not attempted, and that value is
\* what the call returns
C8_SentIsOrOfSelectedChannels ==
    \A r \in Requests :
        (rpc[r] \in {"history", "update"}
            \/ (rpc[r] = "done" /\ rloc[r].ret.status = "ok"
                                /\ rloc[r].ret.has_notification_sent)) =>
            LET method == rloc[r].batch[rloc[r].idx].notification_method
            IN  /\ (rloc[r].email # "no") <=> (method \in {"email", "both"})
                /\ (rloc[r].slack # "no") <=> (method \in {"slack", "both"})
                /\ rloc[r].notification_sent <=>
                       (rloc[r].email = "sent" \/ rloc[r].slack = "sent")
                /\ rpc[r] = "done" =>
                       (rloc[r].ret.notification_sent = rloc[r].notification_sent)

\* method both, email failed, slack delivered
C8_Witness ==
    \E r \in Requests :
        /\ rpc[r] = "done"
        /\ rloc[r].ret.status = "ok"
        /\ rloc[r].ret.has_notification_sent
        /\ rloc[r].batch[1].notification_method = "both"
        /\ rloc[r].email = "failed"
        /\ rloc[r].slack = "sent"
        /\ rloc[r].ret.notification_sent

\* C9: when a metric m is extracted, condition_met is exactly (m comparator
\* threshold) for each of the six comparators, and metric_value is m
C9_ComparatorExact ==
    \A r \in Requests :
        (/\ rloc[r].kind = "test"
         /\ Len(rloc[r].evals) = 1
         /\ ~rloc[r].raised
         /\ rloc[r].data # <<>>
         /\ \E j \in 1..Len(rloc[r].data[1]) : rloc[r].data[1][j].kind = "num") =>
            LET row == rloc[r].data[1]
                num == {j \in 1..Len(row) : row[j].kind = "num"}
                m == row[CHOOSE j \in num : \A k \in num : j <= k].v
                t == rloc[r].batch[1].threshold_value
                c == rloc[r].batch[1].condition
            IN  /\ rloc[r].metric_value = m
                /\ rloc[r].condition_met =
                       CASE c = ">" -> m > t
                         [] c = "<" -> m < t
                         [] c = ">=" -> m >= t
                         [] c = "<=" -> m <= t
                         [] c = "=" -> m = t
                         [] c = "!=" -> m # t

\* comparator > with the metric equal to the threshold: not met
C9_Witness ==
    \E r \in Requests :
        /\ rpc[r] = "done"
        /\ rloc[r].kind = "test"
        /\ Len(rloc[r].evals) = 1
        /\ ~rloc[r].raised
        /\ rloc[r].batch[1].condition = ">"
        /\ rloc[r].batch[1].threshold_value = 1
        /\ rloc[r].data = << <<IntVal(1)>> >>
        /\ rloc[r].ret.condition_met = FALSE
        /\ rloc[r].ret.metric_value = 1

\* C10: when execute_query returned no rows, or a first row without a numeric
\* field, check_alert_condition returns (false, 0) whatever the comparator and
\* threshold; otherwise metric_value is the first numeric field of the first row
C10_NoDataIsNotMet ==
    \A r \in Requests :
        (rloc[r].kind = "test" /\ Len(rloc[r].evals) = 1 /\ ~rloc[r].raised) =>
            IF \/ rloc[r].data = <<>>
               \/ \A j \in 1..Len(rloc[r].data[1]) : rloc[r].data[1][j].kind # "num"
            THEN ~rloc[r].condition_met /\ rloc[r].metric_value = 0
            ELSE \E j \in 1..Len(rloc[r].data[1]) :
                     /\ rloc[r].data[1][j].kind = "num"
                     /\ \A k \in 1..(j - 1) : rloc[r].data[1][k].kind # "num"
                     /\ rloc[r].metric_value = rloc[r].data[1][j].v

\* a first row without a numeric field, under comparator < that 0 would satisfy
C10_Witness ==
    \E r \in Requests :
        /\ rpc[r] = "done"
        /\ rloc[r].kind = "test"
        /\ Len(rloc[r].evals) = 1
        /\ ~rloc[r].raised
        /\ rloc[r].batch[1].condition = "<"
        /\ rloc[r].batch[1].threshold_value = 1
        /\ rloc[r].data = << <<StrVal, StrVal>> >>
        /\ rloc[r].ret.condition_met = FALSE
        /\ rloc[r].ret.metric_value = 0

\* C11: when the cache lookup of an execute_query fails in the store (at the
\* SELECT or at the access-count UPDATE), the query is still executed against
\* the warehouse and the failure does not reach the caller of execute_query
C11_LookupFailureFallsBack ==
    \A r \in Requests :
        (Len(rloc[r].evals) = 1 /\ rloc[r].fault \in {"select", "touch"}) =>
            rloc[r].executions = 1

\* C12: when the warehouse answered and storing the result in the cache
\* failed, execute_query returns the warehouse result instead of raising
C12_StoreFailureReturnsResult ==
    \A r \in Requests :
        (Len(rloc[r].evals) = 1 /\ rloc[r].fault = "store") =>
            (~rloc[r].raised /\ rloc[r].data # <<>>)

\* C13: no alert_history record references an alert id that is not in the
\* alerts table
C13_NoOrphanHistory ==
    \A i \in 1..Len(alert_history) :
        \E a \in alerts : a.id = alert_history[i].alert_id

\* C14: a create_alert whose comparator, method or query is invalid, and an
\* update_alert whose comparator or method is invalid, return an error and
\* leave the alerts table as it was; every stored alert has a comparator and a
\* method of the allowed sets
C14_InvalidDefinitionRejected ==
    [][/\ \A r \in Requests :
              (/\ rpc[r] = "idle"
               /\ rpc'[r] # "idle"
               /\ rloc'[r].kind = "create"
               /\ \/ rloc'[r].input.condition \notin {">", "<", ">=", "<=", "=", "!="}
                  \/ rloc'[r].input.notification_method \notin {"email", "slack", "both"}
                  \/ rloc'[r].input.sql_query.forbidden
                  \/ ~rloc'[r].input.sql_query.reading
                  \/ ~rloc'[r].input.sql_query.parens
                  \/ ~rloc'[r].input.sql_query.quotes) =>
                  (rpc'[r] = "done" /\ rloc'[r].ret.status = "400" /\ alerts' = alerts)
       /\ \A r \in Requests :
              (/\ rpc[r] = "idle"
               /\ rpc'[r] # "idle"
               /\ rloc'[r].kind = "update"
               /\ \/ (rloc'[r].input.condition.set /\
                        rloc'[r].input.condition.v \notin {">", "<", ">=", "<=", "=", "!="})
                  \/ (rloc'[r].input.notification_method.set /\
                        rloc'[r].input.notification_method.v
                            \notin {"email", "slack", "both"})) =>
                  (/\ rpc'[r] = "done"
                   /\ rloc'[r].ret.status \in {"400", "404"}
                   /\ alerts' = alerts)
       /\ \A a \in alerts' :
              /\ a.condition \in {">", "<", ">=", "<=", "=", "!="}
              /\ a.notification_method \in {"email", "slack", "both"}]_vars

\* a create_alert with a query holding a forbidden keyword was refused while
\* an alert is stored
C14_Witness ==
    \E r \in Requests :
        /\ rpc[r] = "done"
        /\ rloc[r].kind = "create"
        /\ rloc[r].input.sql_query.forbidden
        /\ rloc[r].ret.status = "400"
        /\ alerts # {}
        /\ \A a \in alerts : ~a.sql_query.forbidden

\* C15: a test_alert whose query execution raised reports a failure, not a
\* normal result
C15_FailedQueryReportsFailure ==
    \A r \in Requests :
        (/\ rpc[r] = "done"
         /\ rloc[r].kind = "test"
         /\ Len(rloc[r].evals) = 1
         /\ rloc[r].evals[1].raised) => rloc[r].ret.status # "ok"

\* C16: a failed channel yields false and processing goes on: with method
\* both each channel is attempted whatever the other did, and a call that
\* returned has written its history record, also when every channel failed
C16_ChannelFailureContained ==
    \A r \in Requests :
        /\ (rpc[r] \in {"history", "update"}
               /\ rloc[r].batch[rloc[r].idx].notification_method = "both") =>
               (rloc[r].email \in {"sent", "failed"} /\ rloc[r].slack \in {"sent", "failed"})
        /\ (rloc[r].email = "failed" \/ rloc[r].slack = "failed") =>
               rpc[r] \in {"history", "update", "done"}
        /\ (rpc[r] = "done" /\ rloc[r].kind = "test" /\ Len(rloc[r].evals) = 1
               /\ rloc[r].condition_met) =>
               /\ rloc[r].ret.status = "ok"
               /\ rloc[r].ret.has_notification_sent
               /\ \E i \in 1..Len(alert_history) :
                      /\ alert_history[i].alert_id = rloc[r].alert_id
                      /\ alert_history[i].notification_sent = rloc[r].notification_sent

\* method both, both channels failed, the record is written with sent false
C16_Witness ==
    \E r \in Requests :
        /\ rpc[r] = "done"
        /\ rloc[r].kind = "test"
        /\ rloc[r].condition_met
        /\ rloc[r].batch[1].notification_method = "both"
        /\ rloc[r].email = "failed"
        /\ rloc[r].slack = "failed"
        /\ rloc[r].ret.notification_sent = FALSE
        /\ Len(alert_history) = 1
        /\ alert_history[1].notification_sent = FALSE

C18_OneEntryPerCheckedAlert ==
    \A r \in Requests :
        (rpc[r] = "done" /\ rloc[r].kind = "checkall") =>
            /\ rloc[r].ret.checked_count = Len(rloc[r].batch)
            /\ Len(rloc[r].ret.results) = rloc[r].ret.checked_count
            /\ \A i \in 1..Len(rloc[r].batch) :
                   rloc[r].ret.results[i].alert_id = rloc[r].batch[i].id
            /\ rloc[r].ret.triggered_count =
                   Cardinality({i \in 1..Len(rloc[r].evals) :
                                    rloc[r].evals[i].condition_met})

\* three alerts checked, the first met, the second failing, the third not met
C18_Witness ==
    \E r \in Requests :
        /\ rpc[r] = "done"
        /\ rloc[r].kind = "checkall"
        /\ Len(rloc[r].evals) = 3
        /\ rloc[r].evals[1].condition_met
        /\ rloc[r].evals[2].raised
        /\ ~rloc[r].evals[3].condition_met /\ ~rloc[r].evals[3].raised
        /\ rloc[r].ret.checked_count = 3
        /\ rloc[r].ret.triggered_count = 1

\* C19: a step of a request made by a user who does not own an alert leaves
\* every field of that alert as it was
C19_OnlyOwnerChangesAlert ==
    [][\A a \in alerts :
           (\A r \in Requests : rpc'[r] # "idle" => rloc'[r].user # a.user_id) =>
               a \in alerts']_vars

\* C20: no step modifies an alert_history record or removes one whose parent
\* alert stays in the alerts table
C20_HistoryAppendOnly ==
    [][LET ids == {a.id : a \in alerts'}
           old == SelectSeq(alert_history, LAMBDA h : h.alert_id \in ids)
           new == SelectSeq(alert_history', LAMBDA h : h.alert_id \in ids)
       IN  /\ Len(old) <= Len(new)
           /\ SubSeq(new, 1, Len(old)) = old]_vars

\* an update_alert changed the comparator of an alert that has a history
\* record, whose message keeps the comparator of its time
C20_Witness ==
    \E r \in Requests :
        /\ rpc[r] = "done"
        /\ rloc[r].kind = "update"
        /\ rloc[r].ret.status = "ok"
        /\ rloc[r].ret.alert.condition = "<"
        /\ \E i \in 1..Len(alert_history) :
               /\ alert_history[i].alert_id = rloc[r].alert_id
               /\ alert_history[i].message.condition = ">="

\* C21: the trigger_count of an alert never decreases while the alert exists;
\* it is 0 when the alert is created and changes only by +1, in the UPDATE
\* that ends a process_triggered_alert on that alert, never in an update_alert
C21_TriggerCountMonotone ==
    [][/\ \A a \in alerts : \A b \in alerts' :
              b.id = a.id =>
                  \/ b.trigger_count = a.trigger_count
                  \/ /\ b.trigger_count = a.trigger_count + 1
                     /\ \E r \in Requests :
                            /\ rpc[r] = "update"
                            /\ rpc'[r] # "update"
                            /\ rloc[r].batch[rloc[r].idx].id = a.id
       /\ \A b \in alerts' :
              (\A a \in alerts : a.id # b.id) => b.trigger_count = 0]_vars

\* an update_alert changed the comparator of an alert that had been triggered
\* twice, and the count is still 2
C21_Witness ==
    \E r \in Requests :
        /\ rpc[r] = "done"
        /\ rloc[r].kind = "update"
        /\ rloc[r].ret.status = "ok"
        /\ rloc[r].ret.alert.condition = "<"
        /\ rloc[r].ret.alert.trigger_count = 2
        /\ \E a \in alerts : a.id = rloc[r].alert_id /\ a.trigger_count = 2

C23_EvaluationsOverlap ==
    \A r \in Requests :
        (/\ rpc[r] = "done"
         /\ rloc[r].kind = "checkall"
         /\ Cardinality({i \in 1..Len(rloc[r].evals) :
                             rloc[r].evals[i].executions = 1}) >= 2) =>
            (rloc[r].peak >= 2 /\ rloc[r].peak <= 5)

C25_EvictsLeastRecentToSlack ==
    [][(lastOp'.op = "put" /\ now' = now) =>
          LET q == lastOp'.q
              new == [query_hash |-> <<"sha256", q>>, sql_query |-> q,
                      result_data |-> lastOp'.r, result_metadata |-> lastOp'.m,
                      created_at |-> now, expires_at |-> now + tz + ttl,
                      access_count |-> 0, last_accessed |-> now]
              inserted == {r \in query_cache : r.sql_query # q} \cup {new}
              live == {r \in inserted : r.expires_at > now}
          IN  Cardinality(live) > maxSize =>
                  /\ query_cache' \subseteq live
                  /\ Cardinality(query_cache') = (IF maxSize >= 10 THEN maxSize - 10 ELSE 0)
                  /\ \A a \in live \ query_cache' : \A b \in query_cache' :
                         a.last_accessed <= b.last_accessed]_vars

\* with max_size 11 the twelfth text was cached and one row is left
C25_Witness ==
    /\ maxSize = BigCacheSize
    /\ lastOp.op = "put"
    /\ lastOp.at = now
    /\ lastOp.q = BigCacheSize + 1
    /\ Cardinality(query_cache) = 1
    /\ \A r \in query_cache : r.last_accessed = now /\ now > 0

\* C25: when, after the insert of a cache_result and the removal of the
\* expired rows, the count exceeds max_size, the maintenance step removes rows
\* in ascending last_accessed order and stops with the count at
\* max_size - 10: it leaves count <= max_size - 10 and removes no more rows
\* than needed to reach that, for every max_size >= 1
C25_EvictsToMaxMinusTen ==
    [][(lastOp'.op = "put" /\ now' = now) =>
          LET q == lastOp'.q
              new == [query_hash |-> <<"sha256", q>>, sql_query |-> q,
                      result_data |-> lastOp'.r, result_metadata |-> lastOp'.m,
                      created_at |-> now, expires_at |-> now + tz + ttl,
                      access_count |-> 0, last_accessed |-> now]
              inserted == {r \in query_cache : r.sql_query # q} \cup {new}
              live == {r \in inserted : r.expires_at > now}
          IN  Cardinality(live) > maxSize =>
                  /\ query_cache' \subseteq live
                  /\ Cardinality(query_cache') <= maxSize - 10
                  /\ Cardinality(live \ query_cache') <= Cardinality(live) - (maxSize - 10)
                  /\ \A a \in live \ query_cache' : \A b \in query_cache' :
                         a.last_accessed <= b.last_accessed]_vars

\* C26: a get_cached_result(q) that hits adds exactly 1 to the access_count
\* of q's entry, sets its last_accessed to the current time and changes
\* nothing else, in that entry or in another; one that misses, the entry
\* being absent or expired, leaves the cache as it was
C26_HitTouchesOnlyItsEntry ==
    [][(lastOp'.op = "get" /\ now' = now) =>
          LET valid == {r \in query_cache :
                           r.sql_query = lastOp'.q /\ r.expires_at > now}
          IN  IF valid # {}
              THEN /\ lastOp'.result.hit
                   /\ \E r \in valid :
                          query_cache' =
                              (query_cache \ {r}) \cup
                                  {[r EXCEPT !.access_count = r.access_count + 1,
                                             !.last_accessed = now]}
              ELSE /\ ~lastOp'.result.hit
                   /\ query_cache' = query_cache]_vars

\* a lookup has hit an entry some time after it was stored, next to an entry
\* of another query that was never looked up
C26_Witness ==
    /\ lastOp.op = "get"
    /\ lastOp.result.hit
    /\ lastOp.at = now
    /\ \E r1 \in query_cache : \E r2 \in query_cache :
           /\ r1.sql_query = lastOp.q
           /\ r1.access_count = 1
           /\ r1.last_accessed = now
           /\ r1.created_at < now
           /\ r2.sql_query # lastOp.q
           /\ r2.access_count = 0
           /\ r2.last_accessed < now

\* C27: after an execute_query(q) that missed the cache and whose warehouse
\* execution succeeded, with rows or with none, an entry for q is stored, so
\* that an execute_query(q) that follows immediately is served from the cache
C27_MissThenHit ==
    \A r \in Requests :
        (/\ rpc[r] = "done"
         /\ rloc[r].kind = "test"
         /\ Len(rloc[r].evals) = 1
         /\ rloc[r].executions = 1
         /\ ~rloc[r].raised) =>
            /\ Lookup(rloc[r].batch[1].sql_query).hit
            /\ ~PyEvalRaises(Lookup(rloc[r].batch[1].sql_query).data)
            /\ PyEval(Lookup(rloc[r].batch[1].sql_query).data) = rloc[r].data

\* C28: nothing is retried. An evaluation executes its query at the
\* warehouse at most once and ends with that execution, also when it raised;
\* a processing attempts the selected channels in one pass, once each, and
\* goes on to its writes and its return whatever failed
C28_NoRetry ==
    [][\A r \in Requests :
           /\ rloc'[r].executions <= 1
           /\ \A i \in 1..Len(rloc'[r].evals) : rloc'[r].evals[i].executions <= 1
           /\ rloc'[r].executions > rloc[r].executions =>
                  (rpc[r] = "warehouse" /\ rpc'[r] \notin {"lookup", "warehouse"})
           /\ rpc'[r] = "warehouse" => rpc[r] \in {"lookup", "warehouse"}
           /\ (rloc'[r].email # rloc[r].email /\ rloc'[r].email # "no") =>
                  (rpc[r] = "notify" /\ rloc[r].email = "no")
           /\ (rloc'[r].slack # rloc[r].slack /\ rloc'[r].slack # "no") =>
                  (rpc[r] = "notify" /\ rloc[r].slack = "no")
           /\ (rpc[r] = "notify" /\ rpc'[r] # "notify") => rpc'[r] = "history"
           /\ rpc'[r] = "notify" => rpc[r] \in {"lookup", "warehouse", "notify"}
           /\ rpc[r] \in {"history", "update"} =>
                  rpc'[r] \in {"history", "update", "done"}]_vars

\* one call has returned after its only warehouse execution raised, the
\* other after both channels and then the history write failed
C28_Witness ==
    \E r1 \in Requests : \E r2 \in Requests :
        /\ rpc[r1] = "done"
        /\ rloc[r1].evals[1].raised
        /\ rloc[r1].evals[1].executions = 1
        /\ rpc[r2] = "done"
        /\ rloc[r2].condition_met
        /\ rloc[r2].email = "failed"
        /\ rloc[r2].slack = "failed"
        /\ ~rloc[r2].inserted
        /\ alert_history = <<>>

\* C29: the notification_sent that process_triggered_alert returns is true
\* exactly when a channel delivered the message, and it is the
\* notification_sent of the history record of that trigger, also when a
\* write to the store failed after the notifications were sent
C29_ReturnedSentIsDelivered ==
    \A r \in Requests :
        (/\ rpc[r] = "done"
         /\ rloc[r].ret.status = "ok"
         /\ rloc[r].ret.has_notification_sent) =>
            /\ rloc[r].ret.notification_sent <=>
                   (rloc[r].email = "sent" \/ rloc[r].slack = "sent")
            /\ rloc[r].inserted =>
                   \E i \in 1..Len(alert_history) :
                       /\ alert_history[i].alert_id = rloc[r].alert_id
                       /\ alert_history[i].notification_sent =
                              rloc[r].ret.notification_sent

\* C30: a create_alert that succeeds returns the alert it inserted: an alert
\* of the caller with the name, threshold, comparator, method and query of
\* the request, also when another alert of the caller has the same created_at
C30_CreateReturnsInserted ==
    \A r \in Requests :
        (rpc[r] = "done" /\ rloc[r].kind = "create" /\ rloc[r].ret.status = "ok") =>
            /\ rloc[r].ret.alert.user_id = rloc[r].user
            /\ rloc[r].ret.alert.alert_name = rloc[r].input.alert_name
            /\ rloc[r].ret.alert.threshold_value = rloc[r].input.threshold_value
            /\ rloc[r].ret.alert.condition = rloc[r].input.condition
            /\ rloc[r].ret.alert.notification_method = rloc[r].input.notification_method
            /\ rloc[r].ret.alert.sql_query = rloc[r].input.sql_query

====
